---- MODULE Spec2Model ----
(***************************************************************************)
(* A model of logging.hpp: the level tables, the three logger variants    *)
(* (null, std_out, file), the factory, the function-local singleton and   *)
(* the free logging functions, called by a small set of threads.          *)
(*                                                                         *)
(* Time is system_clock in whole seconds since the epoch.  A default       *)
(* constructed time_point is the epoch (0); the process runs at            *)
(* StartTime .. StartTime + MaxTicks.                                      *)
(*                                                                         *)
(* A string that is parsed (reopen_interval) is a sequence of one          *)
(* character strings; the other configuration values are only compared    *)
(* and are plain strings.                                                  *)
(***************************************************************************)
EXTENDS Integers, Sequences, FiniteSets, TLC

\* ------------------------------------------------------------------ bounds
\* number of calls of the public API made by all threads together
MaxCalls == 3
\* number of times the wall clock advances
MaxTicks == 2
\* system_clock::now() when the process starts, seconds since the epoch
StartTime == 1000
\* length of the longest message of the format check
MaxLen == 2

Threads == {1, 2}

\* ------------------------------------------------------------- log levels
TRACE == 0
DEBUG == 1
INFO == 2
WARN == 3
ERROR == 4
Levels == {TRACE, DEBUG, INFO, WARN, ERROR}

\* the plain label table
uncolored(level) ==
    CASE level = ERROR -> " [ERROR] "
      [] level = WARN  -> " [WARN] "
      [] level = INFO  -> " [INFO] "
      [] level = DEBUG -> " [DEBUG] "
      [] level = TRACE -> " [TRACE] "

\* the ANSI coloured label table (\x1b written as ESC)
colored(level) ==
    CASE level = ERROR -> " ESC[31;1m[ERROR]ESC[0m "
      [] level = WARN  -> " ESC[33;1m[WARN]ESC[0m "
      [] level = INFO  -> " ESC[32;1m[INFO]ESC[0m "
      [] level = DEBUG -> " ESC[34;1m[DEBUG]ESC[0m "
      [] level = TRACE -> " ESC[37;1m[TRACE]ESC[0m "

\* The values LOG_LEVEL_CUTOFF can take in a build that compiles.  The
\* LOGGING_LEVEL_NONE branch (log_level::ERROR + 1 on an enum class) is
\* ill-formed, so no program has it.
Cutoffs == Levels

\* ------------------------------------------------------ logging_config_t
\* A configuration is a function from the keys it holds to their values.
HasKey(config, key) == key \in DOMAIN config

\* a default argument that leaves out the key color
DefaultConfigMut == ("type" :> "std_out")

\* the default argument of get_logger
DefaultConfig == ("type" :> "std_out") @@ ("color" :> "")

FileConfig == ("type" :> "file") @@ ("file_name" :> "test.log")

\* the reopen_interval texts the callers pass
IntervalTexts ==
    { <<"0">>, <<"9", "9", "9", "9">>, <<"x">>, <<"0", "x">>, <<>> }

\* the configurations the callers pass
Configs ==
    { DefaultConfig,
      ("type" :> "std_out"),
      ("type" :> ""),
      ("type" :> "nonexistent"),
      ("color" :> ""),
      ("type" :> "file"),
      FileConfig }
    \cup { FileConfig @@ ("reopen_interval" :> s) : s \in IntervalTexts }

\* ------------------------------------------------------------ std::stoul
Digits == {"0", "1", "2", "3", "4", "5", "6", "7", "8", "9"}

DigitVal(c) ==
    CASE c = "0" -> 0 [] c = "1" -> 1 [] c = "2" -> 2 [] c = "3" -> 3
      [] c = "4" -> 4 [] c = "5" -> 5 [] c = "6" -> 6 [] c = "7" -> 7
      [] c = "8" -> 8 [] c = "9" -> 9

\* strtoul skips leading white space
RECURSIVE SkipSpace(_)
SkipSpace(s) ==
    IF Len(s) > 0 /\ s[1] = " " THEN SkipSpace(Tail(s)) ELSE s

\* strtoul accepts an optional sign before the digits
HasSign(s) == Len(s) > 0 /\ s[1] \in {"+", "-"}
Unsigned(s) == IF HasSign(SkipSpace(s)) THEN Tail(SkipSpace(s)) ELSE SkipSpace(s)

\* length of the longest prefix of s made of digits: parsing stops at the
\* first character that is no digit and ignores what follows
RECURSIVE DigitPrefixLen(_)
DigitPrefixLen(s) ==
    IF Len(s) = 0 \/ s[1] \notin Digits THEN 0
    ELSE 1 + DigitPrefixLen(Tail(s))

RECURSIVE DecimalValue(_)
DecimalValue(s) ==
    IF Len(s) = 0 THEN 0
    ELSE 10 * DecimalValue(SubSeq(s, 1, Len(s) - 1)) + DigitVal(s[Len(s)])

\* std::stoul throws std::invalid_argument when no digit can be converted
StoulThrows(s) == DigitPrefixLen(Unsigned(s)) = 0

\* std::chrono::seconds(std::stoul(s)): stoul yields the magnitude v, or
\* 2^64 - v for a text with a minus sign; the conversion of that unsigned
\* long to the signed 64 bit rep of seconds gives -v.
StoulSeconds(s) ==
    LET u == Unsigned(s)
        v == DecimalValue(SubSeq(u, 1, DigitPrefixLen(u)))
    IN IF Len(SkipSpace(s)) > 0 /\ SkipSpace(s)[1] = "-" THEN 0 - v ELSE v

\* reopen_interval{std::chrono::seconds(300)}
DefaultReopenInterval == 300

\* ----------------------------------------------------------- formatting
\* timestamp(): a fixed width text 'year/mo/dy hr:mn:sc.xxxxxx'; its digits
\* are not modelled
Timestamp == "year/mo/dy hr:mn:sc.xxxxxx"
\* " [" + std::to_string(getpid()) + "]"
PidTag == " [pid]"
NL == "\n"

\* the messages the callers log with a level, and the texts they hand to
\* the raw log(message), as main's work() does
Messages == {<<"boom">>}
RawMessages == {<<"ts [CUSTOM] boom", NL>>}

\* ------------------------------------------------------------- loggers
\* The fields of the three logger classes in one record; a field a class
\* does not have keeps its value of NoLogger.
NoLogger ==
    [kind |-> "none", id |-> 0, colored |-> FALSE, file_name |-> <<>>,
     reopen_interval |-> 0, last_reopen |-> 0, is_open |-> FALSE,
     good |-> TRUE]

\* logger(config): the base class, a null logger
null_logger(config, id) == [NoLogger EXCEPT !.kind = "null", !.id = id]

\* std_out_logger(config): levels is colored iff the key color is present
std_out_logger(config, id) ==
    [NoLogger EXCEPT !.kind = "std_out", !.id = id,
                     !.colored = HasKey(config, "color")]

\* a cutoff test that is off by one level
BelowCutoffMut(level, cut) == level + 1 < cut

\* if(level < LOG_LEVEL_CUTOFF) return;
BelowCutoff(level, cut) == level < cut

\* std_out_logger::log(message, level), the line handed to log(message)
std_out_line(lg, message, level) ==
    <<Timestamp, PidTag,
      IF lg.colored THEN colored(level) ELSE uncolored(level)>>
    \o message \o <<NL>>

\* a file line that carries the pid segment of the std_out line
file_lineMut(message, level) ==
    <<Timestamp, PidTag, uncolored(level)>> \o message \o <<NL>>

\* file_logger::log(message, level), the line handed to log(message)
file_line(message, level) ==
    <<Timestamp, uncolored(level)>> \o message \o <<NL>>

\* what std::ofstream::open can do: open the file, fail (failbit is set and
\* nothing is thrown, the stream's exception mask being empty), or throw
\* (std::bad_alloc from the allocation of the file buffer)
OpenOutcomes == {"ok", "fail", "throw"}

\* a check that reopens as soon as the interval is reached
ShouldReopenMut(now_, last_reopen, reopen_interval) ==
    now_ - last_reopen >= reopen_interval

\* if(now - last_reopen > reopen_interval)
ShouldReopen(now_, last_reopen, reopen_interval) ==
    now_ - last_reopen > reopen_interval

\* a reopen that keeps the sampled now as last_reopen when open returns
OpenedTimeMut(now_, clk) == now_

\* last_reopen = std::chrono::system_clock::now() once open has returned
OpenedTime(now_, clk) == clk

\* file_logger::reopen() from the check on, with now_ sampled before the
\* lock was taken and clk the clock when open returns.  tried: close and
\* open were called; threw: the exception left reopen, past lock.unlock().
reopen(lg, now_, clk, outcome) ==
    IF ShouldReopen(now_, lg.last_reopen, lg.reopen_interval)
    THEN CASE outcome = "ok" ->
                [logger |-> [lg EXCEPT !.last_reopen = OpenedTime(now_, clk),
                                       !.is_open = TRUE, !.good = TRUE],
                 tried |-> TRUE, threw |-> FALSE]
           [] outcome = "fail" ->
                [logger |-> [lg EXCEPT !.last_reopen = OpenedTime(now_, clk),
                                       !.is_open = FALSE, !.good = FALSE],
                 tried |-> TRUE, threw |-> FALSE]
           [] outcome = "throw" ->
                [logger |-> [lg EXCEPT !.last_reopen = now_, !.is_open = FALSE,
                                       !.good = FALSE],
                 tried |-> TRUE, threw |-> TRUE]
    ELSE [logger |-> lg, tried |-> FALSE, threw |-> FALSE]

\* file_logger(config): ok, or the exception that leaves the constructor
file_logger(config, id, clk, outcome) ==
    IF ~HasKey(config, "file_name")
    THEN [ok |-> FALSE, what |-> "No output file provided to file logger",
          logger |-> NoLogger, tried |-> FALSE]
    ELSE IF HasKey(config, "reopen_interval")
            /\ StoulThrows(config["reopen_interval"])
    THEN [ok |-> FALSE, what |-> "is not a valid reopen interval",
          logger |-> NoLogger, tried |-> FALSE]
    ELSE LET lg == [NoLogger EXCEPT
                      !.kind = "file", !.id = id,
                      !.file_name = <<"pid", "-", config["file_name"]>>,
                      !.reopen_interval =
                          IF HasKey(config, "reopen_interval")
                          THEN StoulSeconds(config["reopen_interval"])
                          ELSE DefaultReopenInterval]
             r == reopen(lg, clk, clk, outcome)
         IN IF r.threw
            THEN [ok |-> FALSE, what |-> "std::exception",
                  logger |-> NoLogger, tried |-> r.tried]
            ELSE [ok |-> TRUE, what |-> "", logger |-> r.logger,
                  tried |-> r.tried]

\* a factory that does not register the null logger
CreatorsMut == {"std_out", "file"}

\* the names logger_factory() registers
Creators == {"", "std_out", "file"}

\* logger_factory::produce(config)
produce(config, id, clk, outcome) ==
    IF ~HasKey(config, "type")
    THEN [ok |-> FALSE,
          what |-> "Logging factory configuration requires a type of logger",
          logger |-> NoLogger, tried |-> FALSE]
    ELSE IF config["type"] \notin Creators
    THEN [ok |-> FALSE, what |-> "Couldn't produce logger for type",
          logger |-> NoLogger, tried |-> FALSE]
    ELSE CASE config["type"] = "" ->
                [ok |-> TRUE, what |-> "", logger |-> null_logger(config, id),
                 tried |-> FALSE]
           [] config["type"] = "std_out" ->
                [ok |-> TRUE, what |-> "",
                 logger |-> std_out_logger(config, id), tried |-> FALSE]
           [] config["type"] = "file" ->
                file_logger(config, id, clk, outcome)

\* a local that is not static: every call that finds no initialisation
\* under way initialises it
FirstUseMut(g) == g # "busy"

\* a static without a guard: a call that finds the initialisation under way
\* initialises it as well
FirstUseRacy(g) == g # "done"

\* the function-local static of get_logger is initialised by the first call
\* that finds it uninitialised; a call that finds the initialisation under
\* way waits for it
FirstUse(g) == g = "uninit"

\* a guard that marks the static initialised although the initialiser threw
GuardAfterMut(ok) == "done"

\* the guard of the static when its initialiser has ended: initialised if it
\* returned, uninitialised again if it threw
GuardAfter(ok) == IF ok THEN "done" ELSE "uninit"

\* std::mutex: lock() returns once no thread holds the mutex
LockFree(l) == l = 0

\* file << message copies the characters into the stream one after the
\* other: the first part of them, then the rest
Chunk1(ln) == SubSeq(ln, 1, Len(ln) \div 2)
Chunk2(ln) == SubSeq(ln, Len(ln) \div 2 + 1, Len(ln))

\* output is recorded with the call it comes from
Tag(c, ln) == [i \in 1..Len(ln) |-> [call |-> c, tok |-> ln[i]]]

\* a write to the ofstream: characters reach the buffer of an open stream
\* in good state; otherwise the stream goes bad and they are lost
stream_put(lg, b, chars) ==
    IF lg.is_open /\ lg.good
    THEN [logger |-> lg, buf |-> b \o chars]
    ELSE [logger |-> [lg EXCEPT !.good = FALSE], buf |-> b]

\* ------------------------------------------------------------------ state
VARIABLES
    cutoff,     \* LOG_LEVEL_CUTOFF, fixed by the build
    clock,      \* std::chrono::system_clock::now()
    guard,      \* the static of get_logger: "uninit", "busy" or "done"
    singleton,  \* the logger the static holds, NoLogger before
    lock,       \* the singleton's mutex: 0, or the thread that holds it
    buf,        \* characters in the ofstream's buffer, not yet flushed
    disk,       \* content of the file <pid>-<file_name>
    exists,     \* the file has been created
    cout,       \* what standard output has received
    pc,         \* where each thread is in its call
    call,       \* the call each thread is in
    line,       \* the message each thread's log(message) was handed
    now,        \* reopen()'s local now of each thread
    ret,        \* how each thread's last call ended
    ncalls,     \* number of calls started
    stats       \* counts of loggers constructed, of calls of open, and of
                \* those among them that did not open the file; the clock
                \* at the last call of open (0: none yet)

vars ==
    <<cutoff, clock, guard, singleton, lock, buf, disk, exists, cout, pc,
      call, line, now, ret, ncalls, stats>>

NoCall ==
    [id |-> 0, op |-> "none", level |-> TRACE, message |-> <<>>,
     config |-> DefaultConfig]

NoRet ==
    [id |-> 0, op |-> "none", level |-> TRACE, asked |-> "", status |-> "none",
     what |-> "", inst |-> 0]

\* the type a configuration asks for
AskedType(config) ==
    IF HasKey(config, "type") THEN config["type"] ELSE "<no type>"

\* the calls of the public API a thread can make, as call number id
NewCalls(id) ==
    { [id |-> id, op |-> "configure", level |-> TRACE, message |-> <<>>,
       config |-> config] : config \in Configs }
    \cup
    { [id |-> id, op |-> "log_level", level |-> level, message |-> m,
       config |-> DefaultConfig] : level \in Levels, m \in Messages }
    \cup
    { [id |-> id, op |-> "log_raw", level |-> TRACE, message |-> m,
       config |-> DefaultConfig] : m \in RawMessages }

Init ==
    /\ cutoff \in Cutoffs
    /\ clock = StartTime
    /\ guard = "uninit"
    /\ singleton = NoLogger
    /\ lock = 0
    /\ buf = <<>>
    /\ disk = <<>>
    /\ exists = FALSE
    /\ cout = <<>>
    /\ pc = [t \in Threads |-> "idle"]
    /\ call = [t \in Threads |-> NoCall]
    /\ line = [t \in Threads |-> <<>>]
    /\ now = [t \in Threads |-> 0]
    /\ ret = [t \in Threads |-> NoRet]
    /\ ncalls = 0
    /\ stats = [constructed |-> 0, opens |-> 0, faults |-> 0, opened_at |-> 0]

\* the call c of thread t returns (status "ok") or throws
Return(t, c, status, what) ==
    /\ pc' = [pc EXCEPT ![t] = "idle"]
    /\ ret' = [ret EXCEPT ![t] =
                 [id |-> c.id, op |-> c.op, level |-> c.level,
                  asked |-> AskedType(c.config), status |-> status,
                  what |-> what, inst |-> singleton'.id]]
    /\ call' = [call EXCEPT ![t] = NoCall]
    /\ line' = [line EXCEPT ![t] = <<>>]
    /\ now' = [now EXCEPT ![t] = 0]

\* Thread t is in call c and get_logger has just returned the singleton:
\* either t starts c and finds the static initialised, or t has initialised
\* the static for c itself.
Entered(t, c) ==
    \/ /\ pc[t] = "idle"
       /\ ncalls < MaxCalls
       /\ ~FirstUse(guard)
       /\ guard = "done"
       /\ c \in NewCalls(ncalls + 1)
       /\ ncalls' = ncalls + 1
    \/ /\ pc[t] = "dispatch"
       /\ c = call[t]
       /\ ncalls' = ncalls
    \/ /\ pc[t] = "wait"
       /\ guard = "done"
       /\ c = call[t]
       /\ ncalls' = ncalls

Candidates(t) ==
    IF pc[t] \in {"dispatch", "wait"} THEN {call[t]}
    ELSE IF guard = "done" /\ ncalls < MaxCalls THEN NewCalls(ncalls + 1)
    ELSE {}

\* ---------------------------------------------------------------- actions
\* the wall clock advances
Tick ==
    /\ clock < StartTime + MaxTicks
    /\ clock' = clock + 1
    /\ UNCHANGED <<cutoff, guard, singleton, lock, buf, disk, exists, cout,
                   pc, call, line, now, ret, ncalls, stats>>

\* A call of configure, log or TRACE .. ERROR enters get_logger and finds
\* the static uninitialised: its initialisation starts.  The call is a new
\* one, or one that has waited for an initialisation that then failed.
FirstCall(t) ==
    /\ FirstUse(guard)
    /\ \/ /\ pc[t] = "idle"
          /\ ncalls < MaxCalls
          /\ \E c \in NewCalls(ncalls + 1) : call' = [call EXCEPT ![t] = c]
          /\ ncalls' = ncalls + 1
       \/ /\ pc[t] = "wait"
          /\ UNCHANGED <<call, ncalls>>
    /\ guard' = "busy"
    /\ pc' = [pc EXCEPT ![t] = "produce"]
    /\ UNCHANGED <<cutoff, clock, singleton, lock, buf, disk, exists, cout,
                   line, now, ret, stats>>

\* A call enters get_logger while another thread initialises the static:
\* it waits until that initialisation has ended.
Wait(t) ==
    /\ pc[t] = "idle"
    /\ ncalls < MaxCalls
    /\ guard = "busy"
    /\ \E c \in NewCalls(ncalls + 1) : call' = [call EXCEPT ![t] = c]
    /\ ncalls' = ncalls + 1
    /\ pc' = [pc EXCEPT ![t] = "wait"]
    /\ UNCHANGED <<cutoff, clock, guard, singleton, lock, buf, disk, exists,
                   cout, line, now, ret, stats>>

\* static std::unique_ptr<logger> singleton(get_factory().produce(config)):
\* an exception leaves the static uninitialised
Produce(t) ==
    /\ pc[t] = "produce"
    /\ \E outcome \in OpenOutcomes :
         LET r == produce(call[t].config, stats.constructed + 1, clock,
                          outcome)
         IN /\ stats' = [constructed |-> stats.constructed
                                         + (IF r.ok THEN 1 ELSE 0),
                         opens |-> stats.opens + (IF r.tried THEN 1 ELSE 0),
                         faults |-> stats.faults
                                    + (IF r.tried /\ outcome # "ok"
                                       THEN 1 ELSE 0),
                         opened_at |-> IF r.tried THEN clock
                                       ELSE stats.opened_at]
            /\ exists' = (exists \/ (r.tried /\ outcome = "ok"))
            /\ IF r.ok
               THEN /\ singleton' = r.logger
                    /\ guard' = GuardAfter(r.ok)
                    /\ pc' = [pc EXCEPT ![t] = "dispatch"]
                    /\ UNCHANGED <<call, line, now, ret>>
               ELSE /\ singleton' = singleton
                    /\ guard' = GuardAfter(r.ok)
                    /\ Return(t, call[t], "throw", r.what)
    /\ UNCHANGED <<cutoff, clock, lock, buf, disk, cout, ncalls>>

\* configure(config): get_logger(config) and nothing else
Configure(t) ==
    /\ pc[t] \in {"idle", "dispatch", "wait"}
    /\ \E c \in Candidates(t) :
        /\ Entered(t, c)
        /\ c.op = "configure"
        /\ singleton' = singleton
        /\ Return(t, c, "ok", "")
        /\ UNCHANGED <<cutoff, clock, guard, lock, buf, disk, exists, cout,
                       stats>>

\* log(message[, level]) and TRACE .. ERROR(message) on the null logger:
\* logger::log(message, level) and logger::log(message) have empty bodies
NullLog(t) ==
    /\ pc[t] \in {"idle", "dispatch", "wait"}
    /\ \E c \in Candidates(t) :
        /\ Entered(t, c)
        /\ c.op \in {"log_level", "log_raw"}
        /\ singleton.kind = "null"
        /\ singleton' = singleton
        /\ Return(t, c, "ok", "")
        /\ UNCHANGED <<cutoff, clock, guard, lock, buf, disk, exists, cout,
                       stats>>

\* the same on the std_out logger: std_out_logger::log(message, level) and
\* std_out_logger::log(message), one << on std::cout, which the stream does
\* as one write, and a flush
StdOutLog(t) ==
    /\ pc[t] \in {"idle", "dispatch", "wait"}
    /\ \E c \in Candidates(t) :
        /\ Entered(t, c)
        /\ c.op \in {"log_level", "log_raw"}
        /\ singleton.kind = "std_out"
        /\ singleton' = singleton
        /\ IF c.op = "log_level" /\ BelowCutoff(c.level, cutoff)
           THEN UNCHANGED <<cout>>
           ELSE LET output == IF c.op = "log_level"
                              THEN std_out_line(singleton, c.message, c.level)
                              ELSE c.message
                IN /\ cout' = cout \o Tag(c.id, output)
        /\ Return(t, c, "ok", "")
        /\ UNCHANGED <<cutoff, clock, guard, lock, buf, disk, exists, stats>>

\* the same on the file logger: file_logger::log(message, level) up to its
\* call of log(output), and the entry of file_logger::log(message)
FileLog(t) ==
    /\ pc[t] \in {"idle", "dispatch", "wait"}
    /\ \E c \in Candidates(t) :
        /\ Entered(t, c)
        /\ c.op \in {"log_level", "log_raw"}
        /\ singleton.kind = "file"
        /\ singleton' = singleton
        /\ IF c.op = "log_level" /\ BelowCutoff(c.level, cutoff)
           THEN Return(t, c, "ok", "")
           ELSE LET output == IF c.op = "log_level"
                              THEN file_line(c.message, c.level)
                              ELSE c.message
                IN /\ line' = [line EXCEPT ![t] = output]
                   /\ call' = [call EXCEPT ![t] = c]
                   /\ pc' = [pc EXCEPT ![t] = "file_write"]
                   /\ UNCHANGED <<now, ret>>
        /\ UNCHANGED <<cutoff, clock, guard, lock, buf, disk, exists, cout,
                       stats>>

\* file_logger::log(message): lock.lock(); file << message, its first part
FileWrite(t) ==
    /\ pc[t] = "file_write"
    /\ LockFree(lock)
    /\ lock' = t
    /\ LET w == stream_put(singleton, buf, Tag(call[t].id, Chunk1(line[t])))
       IN /\ singleton' = w.logger
          /\ buf' = w.buf
    /\ pc' = [pc EXCEPT ![t] = "file_flush"]
    /\ UNCHANGED <<cutoff, clock, guard, disk, exists, cout, call, line, now,
                   ret, ncalls, stats>>

\* the rest of file << message; file.flush(); lock.unlock()
FileFlush(t) ==
    /\ pc[t] = "file_flush"
    /\ LET w == stream_put(singleton, buf, Tag(call[t].id, Chunk2(line[t])))
       IN /\ singleton' = w.logger
          /\ disk' = IF w.logger.is_open /\ w.logger.good
                     THEN disk \o w.buf ELSE disk
          /\ buf' = IF w.logger.is_open /\ w.logger.good THEN <<>> ELSE w.buf
    /\ lock' = 0
    /\ pc' = [pc EXCEPT ![t] = "reopen"]
    /\ UNCHANGED <<cutoff, clock, guard, exists, cout, call, line, now, ret,
                   ncalls, stats>>

\* reopen(): auto now = std::chrono::system_clock::now()
ReopenSample(t) ==
    /\ pc[t] = "reopen"
    /\ now' = [now EXCEPT ![t] = clock]
    /\ pc' = [pc EXCEPT ![t] = "reopen_lock"]
    /\ UNCHANGED <<cutoff, clock, guard, singleton, lock, buf, disk, exists,
                   cout, call, line, ret, ncalls, stats>>

\* reopen(): lock.lock(), the check, close and open if it says so, and
\* lock.unlock(), which an exception skips
ReopenCheck(t) ==
    /\ pc[t] = "reopen_lock"
    /\ LockFree(lock)
    /\ \E outcome \in OpenOutcomes :
         LET r == reopen(singleton, now[t], clock, outcome)
         IN /\ singleton' = r.logger
            /\ disk' = IF r.tried /\ singleton.is_open
                       THEN disk \o buf ELSE disk
            /\ buf' = IF r.tried THEN <<>> ELSE buf
            /\ exists' = (exists \/ (r.tried /\ outcome = "ok"))
            /\ stats' = [stats EXCEPT
                           !.opens = @ + (IF r.tried THEN 1 ELSE 0),
                           !.faults = @ + (IF r.tried /\ outcome # "ok"
                                           THEN 1 ELSE 0),
                           !.opened_at = IF r.tried THEN clock ELSE @]
            /\ lock' = IF r.threw THEN t ELSE 0
            /\ IF r.threw
               THEN Return(t, call[t], "throw", "std::exception")
               ELSE Return(t, call[t], "ok", "")
    /\ UNCHANGED <<cutoff, clock, guard, cout, ncalls>>

Step(t) ==
    \/ FirstCall(t)
    \/ Wait(t)
    \/ Produce(t)
    \/ Configure(t)
    \/ NullLog(t)
    \/ StdOutLog(t)
    \/ FileLog(t)
    \/ FileWrite(t)
    \/ FileFlush(t)
    \/ ReopenSample(t)
    \/ ReopenCheck(t)

Next == Tick \/ \E t \in Threads : Step(t)

Spec == Init /\ [][Next]_vars

\* ------------------------------------------------ the format of the lines
\* the characters of a message: one that is no newline, and the newline
MessageChars == {"a", NL}

\* every message of at most n characters, the empty one included
MessagesUpTo(n) == UNION { [1..k -> MessageChars] : k \in 0..n }

\* Thread 2 has called configure(config) as the first use of the singleton
\* and is constructing it; thread 1 has called log(message, level) meanwhile
\* and waits in get_logger.  Any message, any level, any configuration.
InitFormat ==
    /\ cutoff \in Cutoffs
    /\ clock = StartTime
    /\ guard = "busy"
    /\ singleton = NoLogger
    /\ lock = 0
    /\ buf = <<>>
    /\ disk = <<>>
    /\ exists = FALSE
    /\ cout = <<>>
    /\ pc = (1 :> "wait") @@ (2 :> "produce")
    /\ \E config \in Configs \cup {FileConfig @@ ("color" :> "")},
          level \in Levels, m \in MessagesUpTo(MaxLen) :
          call = (1 :> [id |-> 2, op |-> "log_level", level |-> level,
                        message |-> m, config |-> DefaultConfig])
                 @@ (2 :> [id |-> 1, op |-> "configure", level |-> TRACE,
                           message |-> <<>>, config |-> config])
    /\ line = [t \in Threads |-> <<>>]
    /\ now = [t \in Threads |-> 0]
    /\ ret = [t \in Threads |-> NoRet]
    /\ ncalls = 2
    /\ stats = [constructed |-> 0, opens |-> 0, faults |-> 0, opened_at |-> 0]

SpecFormat == InitFormat /\ [][Next]_vars

\* ----------------------------------------------------------- properties
LogOps == {"log_level", "log_raw"}

\* thread t's call returns or throws in this step
Returns(t) == ret'[t] # ret[t]

\* the record of a finished call whose message passed the cutoff, so that
\* a line was handed to the raw log(message)
Emitted(r) ==
    \/ r.op = "log_raw"
    \/ r.op = "log_level" /\ r.level >= cutoff

\* number of newlines in out that call c wrote
NewlinesOf(out, c) ==
    Cardinality({i \in 1..Len(out) : out[i].call = c /\ out[i].tok = NL})

\* out is made of whole lines: every stretch up to a newline comes from one
\* call, and whatever a call wrote is one such stretch
NoTornLines(out) ==
    /\ Len(out) > 0 => out[Len(out)].tok = NL
    /\ \A i \in 1..Len(out) - 1 :
          out[i].tok # NL => out[i + 1].call = out[i].call
    /\ \A i \in 1..Len(out) : NewlinesOf(out, out[i].call) = 1

\* what the file logger's file and standard output hold of call c
Written(c) ==
    NewlinesOf(disk, c) + NewlinesOf(cout, c)

\* C1: threads logging concurrently with levels at or above the cutoff to
\* one std_out or file logger leave exactly one complete line per call in
\* the output, no line mixes two calls, and no call raises an error
\* (as long as every open of the file the system was asked for succeeded).
C1_ConcurrentLines ==
    stats.faults = 0 =>
        /\ NoTornLines(cout)
        /\ NoTornLines(disk)
        /\ \A t \in Threads :
              ( /\ ret[t].op = "log_level"
                /\ ret[t].level >= cutoff
                /\ singleton.kind \in {"std_out", "file"} )
              => /\ ret[t].status = "ok"
                 /\ Written(ret[t].id) = 1

\* lines are never torn, whatever else happens to them
C1_NoTornLines == NoTornLines(cout) /\ NoTornLines(disk)

\* what configuration made of a logger: its identity, backend and settings
Settings(lg) ==
    <<lg.id, lg.kind, lg.colored, lg.file_name, lg.reopen_interval>>

\* C2: once the singleton is constructed, every later get_logger or
\* configure, whatever its configuration and thread, returns that same
\* instance with backend and settings unchanged; the later configuration
\* is never applied and creates no logger and no file.
C2_SingletonFixed ==
    [][ guard = "done" =>
          /\ guard' = "done"
          /\ Settings(singleton') = Settings(singleton)
          /\ stats'.constructed = stats.constructed
          /\ \A t \in Threads :
                Returns(t) =>
                   /\ ret'[t].inst = singleton.id
                   /\ ret'[t].op = "configure" =>
                         /\ ret'[t].status = "ok"
                         /\ singleton' = singleton
                         /\ stats' = stats
                         /\ exists' = exists
                         /\ disk' = disk
                         /\ cout' = cout ]_vars

\* a configure asking for a file logger returned after the singleton had
\* been made a std_out logger by an earlier call, and no file was created
C2_Witness ==
    \E t \in Threads :
        /\ ret[t].op = "configure"
        /\ ret[t].id > 1
        /\ ret[t].asked = "file"
        /\ ret[t].status = "ok"
        /\ ret[t].inst = singleton.id
        /\ singleton.kind = "std_out"
        /\ ~exists

\* C3: for every level below the cutoff, log(message, level) of the
\* std_out and of the file logger writes nothing and has no side effect:
\* the lock is not taken, the stream and the file are untouched, no reopen
\* check is made (file handle and last_reopen unchanged).
C3_BelowCutoffNoEffect ==
    [][ \A t \in Threads :
          ( /\ Returns(t)
            /\ ret'[t].op = "log_level"
            /\ ret'[t].level < cutoff
            /\ singleton.kind \in {"std_out", "file"} )
          => /\ pc[t] \in {"idle", "dispatch", "wait"}
             /\ ret'[t].status = "ok"
             /\ lock' = lock
             /\ singleton' = singleton
             /\ buf' = buf
             /\ disk' = disk
             /\ cout' = cout
             /\ exists' = exists
             /\ stats' = stats
             /\ now' = now ]_vars

\* a call below the cutoff has returned from the file logger
C3_Witness ==
    \E t \in Threads :
        /\ ret[t].op = "log_level"
        /\ ret[t].level < cutoff
        /\ ret[t].status = "ok"
        /\ singleton.kind = "file"
        /\ singleton.is_open

\* between its write and its reopen check
AfterWrite == {"reopen", "reopen_lock"}

\* C4: in the file logger's log(message) the write and flush and the
\* reopen check that follows are done under one hold of the lock: between
\* a thread's write and that thread's reopen check no other thread writes
\* to or reopens the file.
C4_WriteAndCheckAtomic ==
    [][ \A t \in Threads :
          (pc[t] \in AfterWrite /\ pc'[t] \in AfterWrite)
          => /\ lock' = lock
             /\ buf' = buf
             /\ disk' = disk
             /\ singleton' = singleton ]_vars

\* the last open of the file logger's file was asked for and did not open it
OpenFailed ==
    /\ singleton.kind = "file"
    /\ ~singleton.is_open
    /\ singleton.last_reopen > 0

\* C5: when a reopen cannot open the file, the handle is closed and the
\* failure is raised to the caller of the log(message) that made the
\* reopen check; after it no log call returns normally without its message
\* in the file.
C5_ReopenFailureSurfaced ==
    [][ \A t \in Threads :
          /\ ( /\ pc[t] = "reopen_lock"
               /\ Returns(t)
               /\ stats'.faults = stats.faults + 1 )
             => /\ ~singleton'.is_open
                /\ ret'[t].status = "throw"
          /\ ( /\ OpenFailed
               /\ Returns(t)
               /\ ret'[t].op \in LogOps
               /\ Emitted(ret'[t])
               /\ ret'[t].status = "ok" )
             => NewlinesOf(disk', ret'[t].id) >= 1 ]_vars

\* an interval no run of the process outlasts
VeryLarge(interval) == interval > StartTime + MaxTicks

\* C6: every successful construction of a file logger leaves the file open
\* (append mode) with last_reopen the time of construction, whatever the
\* valid reopen_interval; with a very large reopen_interval that open is
\* the only one that ever happens.  (Stated for the constructions in which
\* no open fails.)
C6_ConstructionOpens ==
    [][ /\ ( /\ stats'.constructed = stats.constructed + 1
             /\ singleton'.kind = "file"
             /\ stats'.faults = stats.faults )
           => /\ singleton'.is_open
              /\ singleton'.last_reopen = clock
              /\ stats'.opens = stats.opens + 1
              /\ exists'
        /\ ( /\ singleton.kind = "file"
             /\ VeryLarge(singleton.reopen_interval) )
           => stats'.opens = stats.opens ]_vars

\* C7: every log(message) of the file logger makes a reopen check after
\* its write, and the check closes and reopens the file and sets
\* last_reopen exactly when the time from last_reopen to the check's now
\* exceeds reopen_interval: with reopen_interval 0 every call whose check
\* finds the clock advanced makes a close and open cycle, and a call whose
\* check comes before the interval has passed makes none.
C7_ReopenExactlyWhenDue ==
    [][ \A t \in Threads :
          /\ ( /\ Returns(t)
               /\ ret'[t].op \in LogOps
               /\ Emitted(ret'[t])
               /\ singleton.kind = "file" )
             => pc[t] = "reopen_lock"
          /\ (pc[t] = "reopen_lock" /\ pc'[t] # "reopen_lock")
             => LET elapsed == now[t] - singleton.last_reopen
                    due == elapsed > singleton.reopen_interval
                IN /\ due => /\ stats'.opens = stats.opens + 1
                             /\ singleton'.last_reopen >= now[t]
                             /\ singleton'.last_reopen \in {now[t], clock}
                   /\ ~due => /\ stats' = stats
                              /\ singleton' = singleton
                              /\ disk' = disk
                   /\ (singleton.reopen_interval = 0
                       /\ now[t] > singleton.last_reopen)
                      => stats'.opens = stats.opens + 1 ]_vars

\* a file logger with reopen_interval 0 was constructed and two log calls
\* followed, each after the clock had advanced: three opens, the last at
\* the second advance, and both lines in the file
C7_Witness ==
    /\ singleton.kind = "file"
    /\ singleton.reopen_interval = 0
    /\ singleton.is_open
    /\ ncalls = 3
    /\ stats.opens = 3
    /\ stats.faults = 0
    /\ singleton.last_reopen = StartTime + 2
    /\ \A t \in Threads : pc[t] = "idle"
    /\ Cardinality({disk[i].call : i \in 1..Len(disk)}) = 2

\* C8: produce(config): without the key type it fails with a configuration
\* error; with a type that is not registered it fails with an unknown
\* backend error; exactly "", "std_out" and "file" are registered and each
\* yields a logger of that variant, "" the null logger, whose two log
\* operations write nothing; a failing produce yields no logger.
C8_Factory ==
    [][ /\ \A t \in Threads :
             (pc[t] = "produce" /\ pc'[t] # "produce") =>
                LET config == call[t].config
                    threw == Returns(t) /\ ret'[t].status = "throw"
                IN /\ ~HasKey(config, "type") =>
                        /\ threw
                        /\ ret'[t].what =
                             "Logging factory configuration requires a type of logger"
                   /\ ( /\ HasKey(config, "type")
                        /\ config["type"] \notin {"", "std_out", "file"} )
                      => /\ threw
                         /\ ret'[t].what = "Couldn't produce logger for type"
                   /\ ( /\ HasKey(config, "type")
                        /\ config["type"] \in {"", "std_out"} )
                      => ~threw
                   /\ ( /\ HasKey(config, "type") /\ ~threw )
                      => /\ guard' = "done"
                         /\ singleton'.id = stats'.constructed
                         /\ singleton'.kind =
                               CASE config["type"] = "" -> "null"
                                 [] config["type"] = "std_out" -> "std_out"
                                 [] config["type"] = "file" -> "file"
                                 [] OTHER -> "none"
                   /\ threw => /\ singleton' = singleton
                               /\ stats'.constructed = stats.constructed
                               /\ guard' = "uninit"
        /\ singleton.kind = "null" =>
              /\ cout' = cout
              /\ disk' = disk
              /\ buf' = buf
              /\ exists' = exists ]_vars

\* produce has failed for a type that is not registered, then produced the
\* null logger, which has been logged to
C8_Witness ==
    /\ singleton.kind = "null"
    /\ \E t, u \in Threads :
          /\ ret[t].status = "throw"
          /\ ret[t].what = "Couldn't produce logger for type"
          /\ ret[u].op \in LogOps
          /\ ret[u].status = "ok"
          /\ Emitted(ret[u])

\* the text is a number: decimal digits and nothing else
IsNumber(s) == Len(s) > 0 /\ \A i \in 1..Len(s) : s[i] \in Digits

\* C9: constructing a file logger without file_name, or with a
\* reopen_interval that is not a number, fails with a configuration error
\* before any file is opened or created; without reopen_interval the
\* interval is 300 seconds.
C9_FileLoggerConfig ==
    [][ \A t \in Threads :
          ( /\ pc[t] = "produce" /\ pc'[t] # "produce"
            /\ HasKey(call[t].config, "type")
            /\ call[t].config["type"] = "file" )
          => LET config == call[t].config
                 threw == Returns(t) /\ ret'[t].status = "throw"
             IN /\ ~HasKey(config, "file_name") =>
                     /\ threw
                     /\ ret'[t].what = "No output file provided to file logger"
                     /\ stats'.opens = stats.opens
                     /\ exists' = exists
                /\ ( /\ HasKey(config, "file_name")
                     /\ HasKey(config, "reopen_interval")
                     /\ ~IsNumber(config["reopen_interval"]) )
                   => /\ threw
                      /\ ret'[t].what = "is not a valid reopen interval"
                      /\ stats'.opens = stats.opens
                      /\ exists' = exists
                /\ ( /\ HasKey(config, "file_name")
                     /\ ~HasKey(config, "reopen_interval")
                     /\ ~threw )
                   => singleton'.reopen_interval = 300 ]_vars

\* C10: when a logging free function is the first use of the singleton,
\* the singleton becomes the coloured std_out logger; a configure made
\* after that is a no-op: the singleton is neither replaced nor
\* reconfigured and all later output still goes to standard output.
C10_DefaultThenConfigureNoOp ==
    [][ /\ \A t \in Threads :
             ( /\ pc[t] = "produce" /\ pc'[t] # "produce"
               /\ call[t].op \in LogOps )
             => /\ guard' = "done"
                /\ singleton'.kind = "std_out"
                /\ singleton'.colored
                /\ stats'.opens = stats.opens
        /\ singleton.kind = "std_out" =>
              /\ singleton' = singleton
              /\ guard' = "done"
              /\ disk' = disk
              /\ buf' = buf
              /\ exists' = exists
              /\ stats' = stats
              /\ \A t \in Threads :
                    ( Returns(t) /\ ret'[t].op \in LogOps
                      /\ Emitted(ret'[t]) )
                    => /\ ret'[t].status = "ok"
                       /\ NewlinesOf(cout', ret'[t].id) = 1
                       /\ NewlinesOf(cout, ret'[t].id) = 0 ]_vars

\* the first call was a log call, a configure asking for a file logger
\* came second, and the third call's line is on standard output, coloured
C10_Witness ==
    /\ singleton.kind = "std_out"
    /\ singleton.colored
    /\ ~exists
    /\ \E t, u \in Threads :
          /\ ret[t].op = "configure"
          /\ ret[t].id = 2
          /\ ret[t].asked = "file"
          /\ ret[t].status = "ok"
          /\ ret[u].op = "log_level"
          /\ ret[u].id = 3
          /\ ret[u].status = "ok"
          /\ \E i \in 1..Len(cout) :
                cout[i].call = 3 /\ cout[i].tok = colored(ret[u].level)
          /\ \E i \in 1..Len(cout) : cout[i].call = 1

\* s is exactly one line: it ends with a newline and holds no other
OneLine(s) ==
    /\ Len(s) > 0
    /\ s[Len(s)] = NL
    /\ \A i \in 1..Len(s) - 1 : s[i] # NL

\* m occurs in s as a contiguous stretch
Contains(s, m) ==
    \E i \in 1..Len(s) - Len(m) + 1 : SubSeq(s, i, i + Len(m) - 1) = m

\* thread t's log(message, level), at or above the cutoff, hands its line to
\* the raw log(message) of the std_out logger in this step
HandsStdOut(t) ==
    /\ pc[t] \in {"dispatch", "wait"}
    /\ pc'[t] = "idle"
    /\ call[t].op = "log_level"
    /\ call[t].level >= cutoff
    /\ singleton.kind = "std_out"

\* the same for the file logger
HandsFile(t) ==
    /\ pc[t] \in {"dispatch", "wait"}
    /\ pc'[t] = "file_write"
    /\ call[t].op = "log_level"
    /\ singleton.kind = "file"

\* C11 as stated: for every level at or above the cutoff, log(message,
\* level) hands the raw write exactly one line that ends with exactly one
\* newline and contains the message as a contiguous stretch.
C11_OneLinePerCall ==
    [][ \A t \in Threads :
          /\ HandsStdOut(t) =>
                \E out \in {SubSeq(cout', Len(cout) + 1, Len(cout'))} :
                   /\ OneLine([i \in 1..Len(out) |-> out[i].tok])
                   /\ Contains([i \in 1..Len(out) |-> out[i].tok],
                               call[t].message)
          /\ HandsFile(t) =>
                /\ OneLine(line'[t])
                /\ Contains(line'[t], call[t].message) ]_vars

\* C11, amended: the line handed to the raw write is the timestamp, " [pid]"
\* (std_out only), the label (coloured iff the std_out logger was made from
\* a configuration with the key color; plain for the file logger, whatever
\* the key color), the message unchanged, and one newline; it is exactly
\* one line ending with exactly one newline when the message holds no
\* newline.
C11_LineFormat ==
    [][ \A t \in Threads :
          /\ ( /\ pc[t] = "produce"
               /\ singleton'.kind = "std_out"
               /\ singleton.kind # "std_out" )
             => singleton'.colored = HasKey(call[t].config, "color")
          /\ HandsStdOut(t) =>
                LET m == call[t].message
                    label == IF singleton.colored THEN colored(call[t].level)
                             ELSE uncolored(call[t].level)
                    out == <<Timestamp, PidTag, label>> \o m \o <<NL>>
                IN /\ cout' = cout \o Tag(call[t].id, out)
                   /\ (\A i \in 1..Len(m) : m[i] # NL) => OneLine(out)
          /\ HandsFile(t) =>
                LET m == call[t].message
                    out == <<Timestamp, uncolored(call[t].level)>>
                           \o m \o <<NL>>
                IN /\ line'[t] = out
                   /\ (\A i \in 1..Len(m) : m[i] # NL) => OneLine(out) ]_vars

\* the file logger's raw write has been handed the line of a message of two
\* characters without a newline, logged at or above the cutoff, after the
\* other thread's configure has returned
C11_Witness ==
    \E t \in Threads :
        /\ pc[t] = "file_write"
        /\ call[t].op = "log_level"
        /\ call[t].level >= cutoff
        /\ call[t].message = <<"a", "a">>
        /\ Len(line[t]) = 5
        /\ OneLine(line[t])
        /\ ret[3 - t].op = "configure"
        /\ ret[3 - t].status = "ok"

\* C12: the file logger's lock is released on every exit path of the raw
\* write and of reopen, the path where reopen raises included: a thread
\* holds the lock only while it is inside the raw write's critical section,
\* so no later log call blocks on it for ever.
C12_LockReleased ==
    \A t \in Threads : lock = t => pc[t] = "file_flush"

\* the threads that are running the initialiser of the static
Producing == {t \in Threads : pc[t] = "produce"}

\* C13: when several threads make the first use of get_logger at the same
\* time, with different configurations, at most one of them runs produce at
\* any time and only one produce succeeds: one logger is created, every
\* call that returns normally has got that instance, and a call that
\* waited for the initialisation leaves the instance as it was made.
C13_InitOnce ==
    [][ /\ Cardinality(Producing') <= 1
        /\ guard' = "busy" <=> Producing' # {}
        /\ stats'.constructed <= 1
        /\ stats'.constructed = 1 <=> guard' = "done"
        /\ \A t \in Threads :
              /\ (Returns(t) /\ ret'[t].status = "ok")
                 => /\ ret'[t].inst = 1
                    /\ singleton'.id = 1
              /\ (pc[t] = "wait" /\ pc'[t] # "wait" /\ guard = "done")
                 => /\ Settings(singleton') = Settings(singleton)
                    /\ stats'.constructed = stats.constructed ]_vars

\* thread u's first use has made the std_out logger and returned; thread t,
\* whose configure asking for a file logger came while u was constructing,
\* has waited and is about to be given u's instance
C13_Witness ==
    \E t, u \in Threads :
        /\ pc[t] = "wait"
        /\ call[t].op = "configure"
        /\ AskedType(call[t].config) = "file"
        /\ guard = "done"
        /\ singleton.kind = "std_out"
        /\ singleton.id = 1
        /\ stats.constructed = 1
        /\ ret[u].id = 1
        /\ ret[u].status = "ok"
        /\ ret[u].inst = 1

\* the configuration errors of produce and of the file logger's constructor
ConfigErrors ==
    { "Logging factory configuration requires a type of logger",
      "Couldn't produce logger for type",
      "No output file provided to file logger",
      "is not a valid reopen interval" }

\* C14: a get_logger or configure whose construction fails raises the error
\* to its caller and leaves the singleton unmaterialised; the next call of
\* the accessor constructs afresh from its own configuration, so a logging
\* free function called after a failed configure makes and uses the default
\* coloured std_out logger.
C14_FailedConstructionRetried ==
    [][ \A t \in Threads :
          /\ (pc[t] = "produce" /\ pc'[t] = "idle")
             => /\ ret'[t].status = "throw"
                /\ ret'[t].id = call[t].id
                /\ ret'[t].what \in ConfigErrors \cup {"std::exception"}
                /\ ret'[t].what = "std::exception"
                      => stats'.faults = stats.faults + 1
                /\ guard' = "uninit"
                /\ singleton' = NoLogger
                /\ stats'.constructed = 0
          /\ (guard = "uninit" /\ pc[t] \in {"idle", "wait"}
                               /\ pc'[t] # pc[t])
             => /\ pc'[t] = "produce"
                /\ guard' = "busy"
          /\ (pc[t] = "produce" /\ pc'[t] = "dispatch")
             => /\ singleton'.id = 1
                /\ HasKey(call[t].config, "type")
                /\ singleton'.kind =
                      CASE call[t].config["type"] = "" -> "null"
                        [] call[t].config["type"] = "std_out" -> "std_out"
                        [] call[t].config["type"] = "file" -> "file"
                        [] OTHER -> "none"
                /\ call[t].op \in LogOps
                      => /\ singleton'.kind = "std_out"
                         /\ singleton'.colored ]_vars

\* a configure asking for a file logger without file_name was the first use
\* and threw; the log call that came next made the coloured std_out logger
\* and its line is on standard output
C14_Witness ==
    /\ singleton.kind = "std_out"
    /\ singleton.colored
    /\ singleton.id = 1
    /\ \E t, u \in Threads :
          /\ ret[t].op = "configure"
          /\ ret[t].id = 1
          /\ ret[t].status = "throw"
          /\ ret[t].what = "No output file provided to file logger"
          /\ ret[u].op = "log_level"
          /\ ret[u].id = 2
          /\ ret[u].status = "ok"
          /\ ret[u].inst = 1
          /\ \E i \in 1..Len(cout) :
                cout[i].call = 2 /\ cout[i].tok = colored(ret[u].level)

\* thread t's sample of now finds the interval passed
Due(t, lg) == ShouldReopen(now[t], lg.last_reopen, lg.reopen_interval)

\* C15: for one file logger and any interleaving of writers, more than
\* reopen_interval passes between two consecutive opens of the file and
\* last_reopen never decreases; of the callers whose reopen checks race
\* after one expiry of the interval, one closes and reopens and the others
\* find the interval no longer passed; the timestamp a check reads is the
\* time of the last open that returned.  (The clock does not run backwards.)
C15_ReopenSpacing ==
    [][ singleton.kind = "file" =>
          /\ singleton'.last_reopen >= singleton.last_reopen
          /\ (stats'.opens = stats.opens + 1 /\ stats.opens >= 1)
             => /\ clock - stats.opened_at > singleton.reopen_interval
                /\ stats.opened_at >= singleton.last_reopen
          /\ (stats'.opens = stats.opens + 1 /\ lock' = 0)
             => singleton'.last_reopen = clock
          /\ \A t, u \in Threads :
                ( /\ t # u
                  /\ pc[t] = "reopen_lock" /\ pc[u] = "reopen_lock"
                  /\ Due(t, singleton) /\ Due(u, singleton)
                  /\ pc'[t] = "idle"
                  /\ lock' = 0 )
                => /\ stats'.opens = stats.opens + 1
                   /\ ~Due(u, singleton') ]_vars

\* the file logger was opened at construction with reopen_interval 0; two
\* log calls sampled now after the clock had advanced; one has reopened the
\* file, later than the other's sample, and the other is at its check
C15_Witness ==
    /\ singleton.kind = "file"
    /\ singleton.reopen_interval = 0
    /\ singleton.is_open
    /\ stats.opens = 2
    /\ stats.faults = 0
    /\ lock = 0
    /\ singleton.last_reopen = StartTime + 2
    /\ \E t, u \in Threads :
          /\ pc[u] = "reopen_lock"
          /\ now[u] = StartTime + 1
          /\ ret[t].op \in LogOps
          /\ ret[t].status = "ok"
          /\ ret[t].id > 1
====
